---- MODULE Spec2Model ----
(***************************************************************************)
(* Model of the Supabase MCP server's validation and query-construction    *)
(* layer: the validators and helpers of utils.py, the four methods of      *)
(* DatabaseOperations (database.py) and the four tool entry points of      *)
(* server.py that forward to them.  The store client is an external        *)
(* collaborator: each of its builder methods either returns the next       *)
(* builder or raises, and execute either returns a response or raises.     *)
(***************************************************************************)
EXTENDS Integers, Sequences, FiniteSets, TLC

VARIABLES
    phase,      \* "idle" | "running" | "done": where the current call stands
    layer,      \* "server" (MCP tool entry point) | "database" (DatabaseOperations method called directly)
    op,         \* "read" | "create" | "update" | "delete"
    request,    \* the arguments the caller passed to the entry point
    args,       \* the arguments the DatabaseOperations method receives
    pc,         \* index of the next statement of the method body to run
    query,      \* the store-client methods invoked so far in this call, in order
    execution,  \* "none" | "returned" | "raised": what query.execute() did in this call
    response,   \* the data of the response returned by execute (None before)
    raisedError, \* the message of the exception the store client raised ("" if none)
    dbResult,   \* how the DatabaseOperations method ended
    outcome,    \* what the caller of the entry point receives
    calls,      \* how many calls have been made on the DatabaseOperations instance
    tasks,      \* the calls running concurrently on the instance, each with its own locals
    builders,   \* the query builders of those calls: the client methods invoked on each
    env,        \* os.environ: SUPABASE_URL and SUPABASE_SERVICE_KEY (None when unset)
    stage,      \* "start" | "serving" | "closed" | "failed": where supabase_lifespan stands
    createCalls, \* the create_client(url, key) invocations made so far
    context,    \* the SupabaseContext yielded (None before and when none is)
    cleanups,   \* how many times the finally clause of supabase_lifespan has run
    lifespanResult, \* how supabase_lifespan ended
    dispatched  \* the tool calls served under the context, with the client each used

lifespanVars == <<env, stage, createCalls, context, cleanups, lifespanResult, dispatched>>

concurrentVars == <<tasks, builders>>

vars == <<phase, layer, op, request, args, pc, query, execution, response, raisedError, dbResult,
          outcome, calls, concurrentVars, lifespanVars>>

-----------------------------------------------------------------------------
(* Bounds of the model *)

MaxFilters == 2     \* largest number of entries in a filters mapping
MaxRows == 2        \* largest number of rows in a store response
MaxRecords == 2     \* largest number of rows in a records list
MaxDispatch == 2    \* largest number of tool calls served under one context
MaxCalls == 2       \* largest number of calls made on one DatabaseOperations instance
MaxTasks == 2       \* largest number of calls running concurrently on one instance

-----------------------------------------------------------------------------
(* Python values, tagged by type *)

None == [t |-> "none"]
PyStr(s) == [t |-> "str", s |-> s]
PyInt(n) == [t |-> "int", n |-> n]
PyBool(b) == [t |-> "bool", b |-> b]
PyDict(items) == [t |-> "dict", items |-> items]
PyList(elems) == [t |-> "list", elems |-> elems]

\* bool(v): Python truth value
Truthy(v) ==
    CASE v.t = "none" -> FALSE
      [] v.t = "str" -> Len(v.s) > 0
      [] v.t = "int" -> v.n # 0
      [] v.t = "bool" -> v.b
      [] v.t = "dict" -> Len(v.items) > 0
      [] v.t = "list" -> Len(v.elems) > 0

\* isinstance(v, cls); bool is a subclass of int
IsInstance(v, cls) == v.t = cls \/ (cls = "int" /\ v.t = "bool")

\* the integer a bool or int stands for
IntValue(v) == IF v.t = "bool" THEN (IF v.b THEN 1 ELSE 0) ELSE v.n

\* whether len(v) is defined (otherwise len raises TypeError)
Sized(v) == v.t \in {"str", "dict", "list"}

\* len(v)
PyLen(v) ==
    CASE v.t = "str" -> Len(v.s)
      [] v.t = "dict" -> Len(v.items)
      [] v.t = "list" -> Len(v.elems)
      [] OTHER -> 0

\* the characters str.strip() removes
Whitespace == {" ", "\t", "\n", "\r"}

\* str.strip(): remove leading and trailing whitespace
RECURSIVE LStrip(_)
LStrip(s) ==
    IF Len(s) = 0 THEN s
    ELSE IF SubSeq(s, 1, 1) \in Whitespace THEN LStrip(SubSeq(s, 2, Len(s))) ELSE s

RECURSIVE RStrip(_)
RStrip(s) ==
    IF Len(s) = 0 THEN s
    ELSE IF SubSeq(s, Len(s), Len(s)) \in Whitespace
         THEN RStrip(SubSeq(s, 1, Len(s) - 1))
         ELSE s

Strip(s) == RStrip(LStrip(s))

\* t in s, for strings
Contains(s, t) == \E i \in 1..(Len(s) - Len(t) + 1) : SubSeq(s, i, i + Len(t) - 1) = t

-----------------------------------------------------------------------------
(* exceptions.py *)

ValidationError(message) ==
    [type |-> "ValidationError", message |-> message, details |-> << >>]

QueryExecutionError(message, table_name, operation, details) ==
    [type |-> "QueryExecutionError", message |-> message, details |-> details,
     table_name |-> table_name, operation |-> operation]

\* an exception of the store client's own making
ClientException(message) == [type |-> "Exception", message |-> message]

\* type(v).__name__
TypeName(v) ==
    CASE v.t = "none" -> "NoneType"
      [] OTHER -> v.t

\* the TypeError len(v) raises for an object without a length
TypeError(v) ==
    [type |-> "TypeError", message |-> "object of type '" \o TypeName(v) \o "' has no len()"]

Returned(value) == [kind |-> "return", value |-> value]
Raised(exc) == [kind |-> "raise", exc |-> exc]
Pending == [kind |-> "none"]

-----------------------------------------------------------------------------
(* utils.py: validators.  Each yields "" when it returns silently and the   *)
(* ValidationError message when it raises.                                  *)

\* validate_table_name without the strip() test
validate_table_name_no_strip(table_name) ==
    IF ~Truthy(table_name) \/ ~IsInstance(table_name, "str")
    THEN "Table name cannot be empty"
    ELSE ""

validate_table_name(table_name) ==
    IF ~Truthy(table_name) \/ ~IsInstance(table_name, "str") \/ ~(Len(Strip(table_name.s)) > 0)
    THEN "Table name cannot be empty"
    ELSE ""

\* validate_limit rejecting negative limits only
validate_limit_allow_zero(limit) ==
    IF limit # None /\ (~IsInstance(limit, "int") \/ IntValue(limit) < 0)
    THEN "Limit must be a positive integer"
    ELSE ""

validate_limit(limit) ==
    IF limit # None /\ (~IsInstance(limit, "int") \/ IntValue(limit) <= 0)
    THEN "Limit must be a positive integer"
    ELSE ""

validate_filters(filters) ==
    IF filters # None
    THEN IF ~IsInstance(filters, "dict") THEN "Filters must be a dictionary"
         ELSE IF ~Truthy(filters) THEN "Filters dictionary cannot be empty"
         ELSE ""
    ELSE ""

\* validate_updates letting None through, as validate_filters does
validate_updates_optional(updates) ==
    IF updates # None
    THEN IF ~IsInstance(updates, "dict") THEN "Updates must be a dictionary"
         ELSE IF ~Truthy(updates) THEN "Updates dictionary cannot be empty"
         ELSE ""
    ELSE ""

validate_updates(updates) ==
    IF ~IsInstance(updates, "dict") THEN "Updates must be a dictionary"
    ELSE IF ~Truthy(updates) THEN "Updates dictionary cannot be empty"
    ELSE ""

\* database.py:124-125, the check create_table_records makes itself
validate_records(records) ==
    IF ~Truthy(records) THEN "Records cannot be empty" ELSE ""

-----------------------------------------------------------------------------
(* constants.py *)

DEFAULT_COLUMNS == PyStr("*")
DEFAULT_ASCENDING == PyBool(TRUE)

\* ResponseStatus(str, Enum): the .value of a member
ResponseStatusValue(member) == IF member = "SUCCESS" THEN "success" ELSE "error"

-----------------------------------------------------------------------------
(* utils.py: response envelope, filters, execution *)

\* create_response deriving the status from the data
create_response_status_from_data(data, status, message) ==
    [data |-> data,
     count |-> IF Truthy(data) THEN PyLen(data) ELSE 0,
     status |-> IF Truthy(data) THEN "success" ELSE "error",
     message |-> message]

create_response(data, status, message) ==
    [data |-> data,
     count |-> IF Truthy(data) THEN PyLen(data) ELSE 0,
     status |-> ResponseStatusValue(status),
     message |-> message]

\* the statements of a method body
Check(m) == [k |-> "check", m |-> m, i |-> 0]
Log(m) == [k |-> "log", m |-> m, i |-> 0]
Client(m, i) == [k |-> "client", m |-> m, i |-> i]
Execute == [k |-> "execute", m |-> "execute", i |-> 0]
Return == [k |-> "return", m |-> "return", i |-> 0]

\* apply_filters_to_query stopping after the first entry of the mapping
apply_filters_to_query_first_only(filters) ==
    IF Truthy(filters) /\ IsInstance(filters, "dict")
    THEN <<Client("eq", 1)>>
    ELSE << >>

\* apply_filters_to_query walking the mapping from its last entry to its first
apply_filters_to_query_reversed(filters) ==
    IF Truthy(filters) /\ IsInstance(filters, "dict")
    THEN [i \in 1..Len(filters.items) |-> Client("eq", Len(filters.items) + 1 - i)]
    ELSE << >>

\* the query.eq calls apply_filters_to_query makes, one per entry of the
\* mapping in its iteration order (none when filters is None or empty)
apply_filters_to_query(filters) ==
    IF Truthy(filters) /\ IsInstance(filters, "dict")
    THEN [i \in 1..Len(filters.items) |-> Client("eq", i)]
    ELSE << >>

\* f"{table_name}"
Format(v) == IF v.t = "str" THEN v.s ELSE "?"

\* what query.execute() does: it returns a response or raises
ExecuteReturns(data) == [raised |-> FALSE, data |-> data, error |-> ""]
ExecuteRaises(error) == [raised |-> TRUE, data |-> None, error |-> error]

\* safe_execute_query swallowing the client's exception
safe_execute_query_swallow(result, operation, table_name) ==
    Returned(result.data)

safe_execute_query(result, operation, table_name) ==
    IF result.raised
    THEN Raised(QueryExecutionError(
             "Failed to execute " \o operation \o " on table '" \o Format(table_name)
                 \o "': " \o result.error,
             table_name, operation,
             <<[key |-> "original_error", value |-> result.error]>>))
    ELSE Returned(result.data)

-----------------------------------------------------------------------------
(* database.py: the bodies of the four methods, as statement sequences *)

\* read_table_rows applying the limit before the ordering
read_table_rows_limit_first(a) ==
    <<Check("table_name"), Check("limit"), Check("filters"),
      Client("table", 0), Client("select", 0)>>
    \o apply_filters_to_query(a.filters)
    \o (IF Truthy(a.limit) THEN <<Client("limit", 0)>> ELSE << >>)
    \o (IF Truthy(a.order_by) THEN <<Client("order", 0)>> ELSE << >>)
    \o <<Execute, Log("rows_read"), Return>>

read_table_rows(a) ==
    <<Check("table_name"), Check("limit"), Check("filters"),
      Client("table", 0), Client("select", 0)>>
    \o apply_filters_to_query(a.filters)
    \o (IF Truthy(a.order_by) THEN <<Client("order", 0)>> ELSE << >>)
    \o (IF Truthy(a.limit) THEN <<Client("limit", 0)>> ELSE << >>)
    \o <<Execute, Log("rows_read"), Return>>

\* create_table_records checking the records before the table name
create_table_records_records_first(a) ==
    <<Check("records"), Check("table_name"), Log("record_count"),
      Client("table", 0), Client("insert", 0), Execute, Return>>

\* create_table_records with the records check made after the table handle
\* is taken from the client
create_table_records_late_check(a) ==
    <<Check("table_name"), Client("table", 0), Check("records"), Log("record_count"),
      Client("insert", 0), Execute, Return>>

create_table_records(a) ==
    <<Check("table_name"), Check("records"), Log("record_count"),
      Client("table", 0), Client("insert", 0), Execute, Return>>

\* update_table_records applying the equality filters before the update verb
update_table_records_filters_first(a) ==
    <<Check("table_name"), Check("updates"), Check("filters"),
      Client("table", 0)>>
    \o apply_filters_to_query(a.filters)
    \o <<Client("update", 0), Execute, Return>>

update_table_records(a) ==
    <<Check("table_name"), Check("updates"), Check("filters"),
      Client("table", 0), Client("update", 0)>>
    \o apply_filters_to_query(a.filters)
    \o <<Execute, Return>>

\* delete_table_records validating the filters before the table name
delete_table_records_filters_first(a) ==
    <<Check("filters"), Check("table_name"),
      Client("table", 0), Client("delete", 0)>>
    \o apply_filters_to_query(a.filters)
    \o <<Execute, Return>>

delete_table_records(a) ==
    <<Check("table_name"), Check("filters"),
      Client("table", 0), Client("delete", 0)>>
    \o apply_filters_to_query(a.filters)
    \o <<Execute, Return>>

Program(o, a) ==
    CASE o = "read" -> read_table_rows(a)
      [] o = "create" -> create_table_records(a)
      [] o = "update" -> update_table_records(a)
      [] o = "delete" -> delete_table_records(a)

\* the validator a check statement calls, on the argument it is given
RunCheck(m, a) ==
    CASE m = "table_name" -> validate_table_name(a.table_name)
      [] m = "limit" -> validate_limit(a.limit)
      [] m = "filters" -> validate_filters(a.filters)
      [] m = "updates" -> validate_updates(a.updates)
      [] m = "records" -> validate_records(a.records)

\* whether evaluating a log statement's f-string raises TypeError:
\* line 127 takes len(records) unless records is a dict, line 95 takes
\* len(response.data)
\* log lines whose len() guards against a missing length, f"{len(x or [])}"
LogRaises_guarded(m, a, data) == FALSE

LogRaises(m, a, data) ==
    CASE m = "record_count" -> ~IsInstance(a.records, "dict") /\ ~Sized(a.records)
      [] m = "rows_read" -> ~Sized(data)

\* the object whose len() the log statement takes
LogSubject(m, a, data) == IF m = "record_count" THEN a.records ELSE data

\* the store-client method a client statement invokes, with its arguments
ClientCall(stmt, a) ==
    CASE stmt.m = "table" -> [m |-> "table", a1 |-> a.table_name, a2 |-> None]
      [] stmt.m = "select" -> [m |-> "select", a1 |-> a.columns, a2 |-> None]
      [] stmt.m = "insert" -> [m |-> "insert", a1 |-> a.records, a2 |-> None]
      [] stmt.m = "update" -> [m |-> "update", a1 |-> a.updates, a2 |-> None]
      [] stmt.m = "delete" -> [m |-> "delete", a1 |-> None, a2 |-> None]
      [] stmt.m = "eq" -> [m |-> "eq", a1 |-> PyStr(a.filters.items[stmt.i].column),
                           a2 |-> a.filters.items[stmt.i].value]
      [] stmt.m = "order" -> [m |-> "order", a1 |-> a.order_by, a2 |-> a.ascending]
      [] stmt.m = "limit" -> [m |-> "limit", a1 |-> a.limit, a2 |-> None]

ExecuteCall == [m |-> "execute", a1 |-> None, a2 |-> None]

\* query.execute() invoked a second time
execute_calls_retry(q) == Append(Append(q, ExecuteCall), ExecuteCall)

\* utils.py:169, safe_execute_query invokes query.execute()
execute_calls(q) == Append(q, ExecuteCall)

\* an except clause turning whatever it catches into QueryExecutionError
method_except_wrapping(exc) ==
    IF exc.type = "QueryExecutionError" THEN exc
    ELSE QueryExecutionError(exc.message, None, "unknown", << >>)

\* the except clause of each method logs the exception and re-raises it
method_except(exc) == exc

\* whether a statement lies inside the method's try block (the validators
\* and the record_count log line come before it)
InTry(stmt) == stmt.k \in {"client", "execute", "return"} \/ stmt = Log("rows_read")

\* wrap_response taking any non-null data for a success
wrap_response_null_check_only(data, done, nothing) ==
    LET success == data # None
        status == IF success THEN "SUCCESS" ELSE "ERROR"
        rows == IF Truthy(data) THEN data ELSE PyList(<< >>)
    IN create_response(data, status,
           IF success THEN PyStr(done \o " " \o ToString(PyLen(rows)) \o " record(s)")
           ELSE PyStr(nothing))

\* the envelope create/update/delete build from the response (lines 135-144,
\* 188-197, 238-247)
wrap_response(data, done, nothing) ==
    LET success == data # None /\ PyLen(data) > 0
        status == IF success THEN "SUCCESS" ELSE "ERROR"
        rows == IF Truthy(data) THEN data ELSE PyList(<< >>)
    IN create_response(data, status,
           IF success THEN PyStr(done \o " " \o ToString(PyLen(rows)) \o " record(s)")
           ELSE PyStr(nothing))

\* database.py:127, the number of records submitted to create
record_count(records) == IF IsInstance(records, "dict") THEN 1 ELSE PyLen(records)

\* ReturnValue with update's empty-result message copied from create
ReturnValue_create_message(o, a, data) ==
    CASE o = "read" -> data
      [] o = "create" -> wrap_response(data, "Created", "No records were created")
      [] o = "update" -> wrap_response(data, "Updated", "No records were created")
      [] o = "delete" -> wrap_response(data, "Deleted", "No records were deleted")

\* ReturnValue with create reporting the number of records submitted
ReturnValue_submitted_count(o, a, data) ==
    CASE o = "read" -> data
      [] o = "create" ->
           LET success == data # None /\ PyLen(data) > 0
           IN create_response(data, IF success THEN "SUCCESS" ELSE "ERROR",
                  IF success
                  THEN PyStr("Created " \o ToString(record_count(a.records)) \o " record(s)")
                  ELSE PyStr("No records were created"))
      [] o = "update" -> wrap_response(data, "Updated", "No records were updated")
      [] o = "delete" -> wrap_response(data, "Deleted", "No records were deleted")

\* ReturnValue with read wrapped in the envelope like the other three
ReturnValue_read_enveloped(o, a, data) ==
    CASE o = "read" -> wrap_response(data, "Read", "No records were read")
      [] o = "create" -> wrap_response(data, "Created", "No records were created")
      [] o = "update" -> wrap_response(data, "Updated", "No records were updated")
      [] o = "delete" -> wrap_response(data, "Deleted", "No records were deleted")

\* the value a method returns once execute has returned
ReturnValue(o, a, data) ==
    CASE o = "read" -> data
      [] o = "create" -> wrap_response(data, "Created", "No records were created")
      [] o = "update" -> wrap_response(data, "Updated", "No records were updated")
      [] o = "delete" -> wrap_response(data, "Deleted", "No records were deleted")

-----------------------------------------------------------------------------
(* server.py: a tool entry point forwards to the method and lets its result  *)
(* and its ValidationError / QueryExecutionError through; any other          *)
(* exception becomes QueryExecutionError("Unexpected error: ...")            *)

\* a tool replacing every exception of the method, its ValidationError and
\* QueryExecutionError included
tool_entry_point_wrap_all(operation, table_name, result) ==
    IF result.kind = "raise"
    THEN Raised(QueryExecutionError("Unexpected error: " \o result.exc.message,
                                    table_name, operation, << >>))
    ELSE result

\* a tool raising when the method returns an "error"-status envelope
tool_entry_point_raise_on_error(operation, table_name, result) ==
    IF result.kind = "raise" /\ result.exc.type \notin {"ValidationError", "QueryExecutionError"}
    THEN Raised(QueryExecutionError("Unexpected error: " \o result.exc.message,
                                    table_name, operation, << >>))
    ELSE IF result.kind = "return" /\ operation # "read" /\ result.value.status = "error"
    THEN Raised(QueryExecutionError(result.value.message.s, table_name, operation, << >>))
    ELSE result

tool_entry_point(operation, table_name, result) ==
    IF result.kind = "raise" /\ result.exc.type \notin {"ValidationError", "QueryExecutionError"}
    THEN Raised(QueryExecutionError("Unexpected error: " \o result.exc.message,
                                    table_name, operation, << >>))
    ELSE result

-----------------------------------------------------------------------------
(* server.py: supabase_lifespan *)

ConfigurationError(message) ==
    [type |-> "ConfigurationError", message |-> message, details |-> << >>]

\* constants.py:25
MISSING_ENV_VARS ==
    "Missing environment variables. Please set SUPABASE_URL and SUPABASE_SERVICE_KEY."

\* the environment test requiring only one of the two variables
env_missing_both(url, key) == ~Truthy(url) /\ ~Truthy(key)

\* server.py:69, not supabase_url or not supabase_key
env_missing(url, key) == ~Truthy(url) \/ ~Truthy(key)

\* the client create_client(url, key) returns
ClientHandle(url, key) == [t |-> "client", url |-> url, key |-> key]

\* DatabaseOperations making a client of its own instead of keeping the one
\* it is given
DatabaseOperations_own_client(client) == [client |-> ClientHandle(None, None)]

\* DatabaseOperations(client): the instance keeps the handle
DatabaseOperations(client) == [client |-> client]

\* SupabaseContext(client=supabase_client, db_ops=db_ops)
SupabaseContext(client, db_ops) == [t |-> "context", client |-> client, db_ops |-> db_ops]

\* os.getenv of either variable: unset, empty or set
UrlValues == {None, PyStr(""), PyStr("https://example.supabase.co"), PyStr("http://localhost")}
KeyValues == {None, PyStr(""), PyStr("mock-service-key"), PyStr("other-key")}
NoEnv == [url |-> None, key |-> None]
TestEnv == [url |-> PyStr("https://example.supabase.co"), key |-> PyStr("mock-service-key")]

\* what may be raised inside the server body while the context is held;
\* base marks exceptions that derive from BaseException only
BodyErrors ==
    {[type |-> "RuntimeError", message |-> "server crashed", base |-> FALSE],
     [type |-> "CancelledError", message |-> "", base |-> TRUE]}

\* supabase_lifespan has not been entered
NotStarted(e) ==
    /\ env = e
    /\ stage = "start"
    /\ createCalls = << >>
    /\ context = None
    /\ cleanups = 0
    /\ lifespanResult = Pending
    /\ dispatched = << >>

\* supabase_lifespan has yielded its context and no tool call was served yet
Serving ==
    /\ env = TestEnv
    /\ stage = "serving"
    /\ createCalls = <<[url |-> TestEnv.url, key |-> TestEnv.key]>>
    /\ context = SupabaseContext(ClientHandle(TestEnv.url, TestEnv.key),
                                 DatabaseOperations(ClientHandle(TestEnv.url, TestEnv.key)))
    /\ cleanups = 0
    /\ lifespanResult = Pending
    /\ dispatched = << >>

-----------------------------------------------------------------------------
(* The arguments callers pass and the behaviours of the store client *)

\* sequences over S of length at most n
SeqUpTo(S, n) == UNION {[1..k -> S] : k \in 0..n}

FilterColumns == {"id", "age"}
FilterValues == {PyInt(1), PyInt(2)}
Items == [column : FilterColumns, value : FilterValues]

\* the item sequences of mappings: keys are distinct, iteration order is
\* insertion order
Mappings(n) ==
    {s \in SeqUpTo(Items, n) : \A i, j \in 1..Len(s) : i # j => s[i].column # s[j].column}

TableNameArgs == {PyStr("users"), PyStr(""), PyStr("  "), None, PyInt(42)}
ColumnsArgs == {DEFAULT_COLUMNS, PyStr("id,name")}
FiltersArgs == {None, PyStr("id=1"), PyList(<< >>)} \cup {PyDict(s) : s \in Mappings(MaxFilters)}
LimitArgs == {None, PyInt(-1), PyInt(0), PyInt(1), PyInt(2), PyStr("10")}
OrderByArgs == {None, PyStr(""), PyStr("id")}
AscendingArgs == {PyBool(TRUE), PyBool(FALSE)}
UpdatesArgs == {None, PyStr("name=X"), PyDict(<< >>), PyDict(<<[column |-> "age", value |-> PyInt(2)]>>)}
Record1 == PyDict(<<[column |-> "id", value |-> PyInt(1)]>>)
Record2 == PyDict(<<[column |-> "id", value |-> PyInt(2)]>>)
RecordsArgs ==
    {None, PyDict(<< >>), Record1, PyInt(5)}
    \cup {PyList(s) : s \in {r \in SeqUpTo({Record1, Record2}, MaxRecords) :
                               \A i, j \in 1..Len(r) : i < j => r[i] # r[j]}}

NoArgs ==
    [table_name |-> None, columns |-> DEFAULT_COLUMNS, filters |-> None, limit |-> None,
     order_by |-> None, ascending |-> DEFAULT_ASCENDING, records |-> None, updates |-> None]

ArgsOf(o) ==
    CASE o = "read" ->
           {[NoArgs EXCEPT !.table_name = t, !.columns = c, !.filters = f, !.limit = l,
                           !.order_by = b, !.ascending = d] :
              t \in TableNameArgs, c \in ColumnsArgs, f \in FiltersArgs, l \in LimitArgs,
              b \in OrderByArgs, d \in AscendingArgs}
      [] o = "create" ->
           {[NoArgs EXCEPT !.table_name = t, !.records = r] :
              t \in TableNameArgs, r \in RecordsArgs}
      [] o = "update" ->
           {[NoArgs EXCEPT !.table_name = t, !.updates = u, !.filters = f] :
              t \in TableNameArgs, u \in UpdatesArgs, f \in FiltersArgs}
      [] o = "delete" ->
           {[NoArgs EXCEPT !.table_name = t, !.filters = f] :
              t \in TableNameArgs, f \in FiltersArgs}

\* a parameter the caller of a tool leaves out
Omitted == [t |-> "omitted"]

\* the value a parameter takes: the one passed or, when omitted, its default
Given(value, default) == IF value = Omitted THEN default ELSE value

\* the keyword arguments a tool passes on to the method (server.py:140-147,
\* 194, 241-245, 287), the omitted ones taking the defaults of the tool's
\* signature (server.py:102-106)
forward(o, r) ==
    CASE o = "read" ->
           [NoArgs EXCEPT !.table_name = r.table_name,
                          !.columns = Given(r.columns, DEFAULT_COLUMNS),
                          !.filters = Given(r.filters, None),
                          !.limit = Given(r.limit, None),
                          !.order_by = Given(r.order_by, None),
                          !.ascending = Given(r.ascending, DEFAULT_ASCENDING)]
      [] o = "create" -> [NoArgs EXCEPT !.table_name = r.table_name, !.records = r.records]
      [] o = "update" -> [NoArgs EXCEPT !.table_name = r.table_name, !.updates = r.updates,
                                        !.filters = r.filters]
      [] o = "delete" -> [NoArgs EXCEPT !.table_name = r.table_name, !.filters = r.filters]

\* what callers pass to a tool: read's optional parameters may be omitted
RequestsOf(o) ==
    IF o = "read"
    THEN {[NoArgs EXCEPT !.table_name = t, !.columns = c, !.filters = f, !.limit = l,
                         !.order_by = b, !.ascending = d] :
            t \in TableNameArgs, c \in ColumnsArgs \cup {Omitted},
            f \in FiltersArgs \cup {Omitted}, l \in LimitArgs \cup {Omitted},
            b \in OrderByArgs \cup {Omitted}, d \in AscendingArgs \cup {Omitted}}
    ELSE ArgsOf(o)

Operations == {"read", "create", "update", "delete"}
Layers == {"server", "database"}

\* the rows a store response may carry
Rows == {Record1, Record2}
ResponseData == {None} \cup {PyList(s) : s \in SeqUpTo(Rows, MaxRows)}
ClientErrors == {"Database error", "timeout"}
ExecuteResults ==
    {ExecuteReturns(d) : d \in ResponseData} \cup {ExecuteRaises(e) : e \in ClientErrors}

-----------------------------------------------------------------------------
(* The external store: a table of rows, and the narrowing an equality         *)
(* constraint makes (section 4.2: all filters are ANDed)                      *)

StoreTable == [id : FilterValues, age : FilterValues]

\* query.eq(column, value): the rows whose column equals value
eq_filter(rows, call) == {r \in rows : r[call.a1.s] = call.a2}

\* the rows of the table a chain of client calls is narrowed to
RECURSIVE Targeted(_, _)
Targeted(rows, q) ==
    IF q = << >> THEN rows
    ELSE Targeted(IF Head(q).m = "eq" THEN eq_filter(rows, Head(q)) ELSE rows, Tail(q))

\* no call is running concurrently with the one at hand
NoTasks ==
    /\ tasks = << >>
    /\ builders = << >>

-----------------------------------------------------------------------------
(* The state machine *)

Init ==
    /\ Serving
    /\ phase = "idle"
    /\ layer = "database"
    /\ op = "read"
    /\ args = NoArgs
    /\ pc = 0
    /\ query = << >>
    /\ execution = "none"
    /\ response = None
    /\ raisedError = ""
    /\ dbResult = Pending
    /\ outcome = Pending
    /\ calls = 0
    /\ request = NoArgs
    /\ NoTasks

Stmt == Program(op, args)[pc]

\* the method ends with result; through a tool entry point the caller
\* receives what the tool's try/except makes of it
EndMethod(result) ==
    /\ dbResult' = result
    /\ outcome' = IF layer = "server"
                  THEN tool_entry_point(op, args.table_name, result)
                  ELSE result
    /\ phase' = "done"
    /\ pc' = pc

\* a caller invokes an entry point: a tool of the server, which forwards to
\* the method, or the method itself
Call ==
    /\ phase = "idle"
    /\ calls < MaxCalls
    /\ calls' = calls + 1
    /\ UNCHANGED <<concurrentVars, lifespanVars>>
    /\ \E l \in Layers, o \in Operations :
         \E r \in (IF l = "server" THEN RequestsOf(o) ELSE ArgsOf(o)) :
            /\ layer' = l
            /\ op' = o
            /\ request' = r
            /\ args' = IF l = "server" THEN forward(o, r) ELSE r
    /\ phase' = "running"
    /\ pc' = 1
    /\ UNCHANGED <<query, execution, response, raisedError, dbResult, outcome>>

\* a validator runs: it raises ValidationError or returns silently
StepCheck ==
    /\ phase = "running"
    /\ UNCHANGED <<request, calls, concurrentVars, lifespanVars>>
    /\ Stmt.k = "check"
    /\ LET message == RunCheck(Stmt.m, args)
       IN IF message # ""
          THEN EndMethod(Raised(ValidationError(message)))
          ELSE /\ pc' = pc + 1
               /\ UNCHANGED <<phase, dbResult, outcome>>
    /\ UNCHANGED <<layer, op, args, query, execution, response, raisedError>>

\* a logger call whose f-string takes a len()
StepLog ==
    /\ phase = "running"
    /\ UNCHANGED <<request, calls, concurrentVars, lifespanVars>>
    /\ Stmt.k = "log"
    /\ IF LogRaises(Stmt.m, args, response)
       THEN LET e == TypeError(LogSubject(Stmt.m, args, response))
            IN EndMethod(Raised(IF InTry(Stmt) THEN method_except(e) ELSE e))
       ELSE /\ pc' = pc + 1
            /\ UNCHANGED <<phase, dbResult, outcome>>
    /\ UNCHANGED <<layer, op, args, query, execution, response, raisedError>>

\* a builder method of the store client is invoked and returns the builder
StepClient ==
    /\ phase = "running"
    /\ UNCHANGED <<request, calls, concurrentVars, lifespanVars>>
    /\ Stmt.k = "client"
    /\ query' = Append(query, ClientCall(Stmt, args))
    /\ pc' = pc + 1
    /\ UNCHANGED <<phase, layer, op, args, execution, response, raisedError, dbResult,
                   outcome>>

\* a builder method of the store client is invoked and raises: the method's
\* except clause logs and re-raises
StepClientRaises ==
    /\ phase = "running"
    /\ UNCHANGED <<request, calls, concurrentVars, lifespanVars>>
    /\ Stmt.k = "client"
    /\ query' = Append(query, ClientCall(Stmt, args))
    /\ \E e \in ClientErrors :
         /\ raisedError' = e
         /\ EndMethod(Raised(method_except(ClientException(e))))
    /\ UNCHANGED <<layer, op, args, execution, response>>

\* safe_execute_query(query, operation, table_name)
StepExecute ==
    /\ phase = "running"
    /\ UNCHANGED <<request, calls, concurrentVars, lifespanVars>>
    /\ Stmt.k = "execute"
    /\ query' = execute_calls(query)
    /\ \E result \in ExecuteResults :
         LET r == safe_execute_query(result, op, args.table_name)
         IN /\ execution' = IF result.raised THEN "raised" ELSE "returned"
            /\ raisedError' = result.error
            /\ IF r.kind = "raise"
               THEN /\ response' = response
                    /\ EndMethod(Raised(method_except(r.exc)))
               ELSE /\ response' = r.value
                    /\ pc' = pc + 1
                    /\ UNCHANGED <<phase, dbResult, outcome>>
    /\ UNCHANGED <<layer, op, args>>

\* the method returns its value
StepReturn ==
    /\ phase = "running"
    /\ UNCHANGED <<request, calls, concurrentVars, lifespanVars>>
    /\ Stmt.k = "return"
    /\ EndMethod(Returned(ReturnValue(op, args, response)))
    /\ UNCHANGED <<layer, op, args, query, execution, response, raisedError>>

\* Finish with the query builder of the call kept on the instance
Finish_keeps_query ==
    /\ phase = "done"
    /\ UNCHANGED <<calls, concurrentVars, lifespanVars>>
    /\ phase' = "idle"
    /\ request' = NoArgs
    /\ layer' = "database"
    /\ op' = "read"
    /\ args' = NoArgs
    /\ pc' = 0
    /\ query' = query
    /\ execution' = "none"
    /\ response' = None
    /\ raisedError' = ""
    /\ dbResult' = Pending
    /\ outcome' = Pending

\* the caller has its result; nothing of the call is kept, the next call
\* starts afresh
Finish ==
    /\ phase = "done"
    /\ UNCHANGED <<calls, concurrentVars, lifespanVars>>
    /\ phase' = "idle"
    /\ request' = NoArgs
    /\ layer' = "database"
    /\ op' = "read"
    /\ args' = NoArgs
    /\ pc' = 0
    /\ query' = << >>
    /\ execution' = "none"
    /\ response' = None
    /\ raisedError' = ""
    /\ dbResult' = Pending
    /\ outcome' = Pending

Next ==
    \/ Call
    \/ StepCheck
    \/ StepLog
    \/ StepClient
    \/ StepClientRaises
    \/ StepExecute
    \/ StepReturn
    \/ Finish

Spec == Init /\ [][Next]_vars

-----------------------------------------------------------------------------
(* create_response called on its own, as the unit tests call it *)

StatusArgs == {"SUCCESS", "ERROR"}
MessageArgs == {None, PyStr(""), PyStr("Success"), PyStr("No records were created")}
CreateResponseArgs == [data : ResponseData, status : StatusArgs, message : MessageArgs]

InitCreateResponse ==
    /\ NotStarted(NoEnv)
    /\ phase = "idle"
    /\ layer = "utils"
    /\ op = "create_response"
    /\ args \in CreateResponseArgs
    /\ pc = 0
    /\ query = << >>
    /\ execution = "none"
    /\ response = None
    /\ raisedError = ""
    /\ dbResult = Pending
    /\ outcome = Pending
    /\ calls = 0
    /\ request = NoArgs
    /\ NoTasks

CallCreateResponse ==
    /\ phase = "idle"
    /\ UNCHANGED <<request, calls, concurrentVars, lifespanVars>>
    /\ op = "create_response"
    /\ outcome' = Returned(create_response(args.data, args.status, args.message))
    /\ phase' = "done"
    /\ UNCHANGED <<layer, op, args, pc, query, execution, response, raisedError, dbResult>>

NextCreateResponse == CallCreateResponse

SpecCreateResponse == InitCreateResponse /\ [][NextCreateResponse]_vars

-----------------------------------------------------------------------------
(* the validators called on their own, as the unit tests call them *)

Validators == {"validate_table_name", "validate_limit", "validate_filters", "validate_updates"}

ValidatorValues ==
    {None,
     PyStr(""), PyStr(" "), PyStr("  "), PyStr("\t\n"), PyStr("users"), PyStr(" users "),
     PyStr("a b"), PyStr("10"),
     PyInt(-1), PyInt(0), PyInt(1), PyInt(2), PyInt(42), PyBool(TRUE), PyBool(FALSE),
     PyList(<< >>), PyList(<<Record1>>)}
    \cup {PyDict(s) : s \in Mappings(MaxFilters)}

InitValidators ==
    /\ NotStarted(NoEnv)
    /\ phase = "idle"
    /\ layer = "utils"
    /\ op \in Validators
    /\ args \in [value : ValidatorValues]
    /\ pc = 0
    /\ query = << >>
    /\ execution = "none"
    /\ response = None
    /\ raisedError = ""
    /\ dbResult = Pending
    /\ outcome = Pending
    /\ calls = 0
    /\ request = NoArgs
    /\ NoTasks

\* a validator returns None or raises ValidationError(message)
ValidatorOutcome(message) ==
    IF message = "" THEN Returned(None) ELSE Raised(ValidationError(message))

CallValidator(name, message) ==
    /\ phase = "idle"
    /\ UNCHANGED <<request, calls, concurrentVars, lifespanVars>>
    /\ op = name
    /\ outcome' = ValidatorOutcome(message)
    /\ phase' = "done"
    /\ UNCHANGED <<layer, op, args, pc, query, execution, response, raisedError, dbResult>>

CallValidateTableName == CallValidator("validate_table_name", validate_table_name(args.value))
CallValidateLimit == CallValidator("validate_limit", validate_limit(args.value))
CallValidateFilters == CallValidator("validate_filters", validate_filters(args.value))
CallValidateUpdates == CallValidator("validate_updates", validate_updates(args.value))

NextValidators ==
    \/ CallValidateTableName
    \/ CallValidateLimit
    \/ CallValidateFilters
    \/ CallValidateUpdates

SpecValidators == InitValidators /\ [][NextValidators]_vars

-----------------------------------------------------------------------------
(* supabase_lifespan, from its entry to its exit *)

CallVarsIdle ==
    /\ phase = "idle"
    /\ layer = "server"
    /\ op = "read"
    /\ args = NoArgs
    /\ pc = 0
    /\ query = << >>
    /\ execution = "none"
    /\ response = None
    /\ raisedError = ""
    /\ dbResult = Pending
    /\ outcome = Pending
    /\ calls = 0
    /\ request = NoArgs
    /\ NoTasks

callVars == <<phase, layer, op, request, args, pc, query, execution, response, raisedError, dbResult,
              outcome, calls, concurrentVars>>

InitLifespan ==
    /\ CallVarsIdle
    /\ \E e \in [url : UrlValues, key : KeyValues] : NotStarted(e)

\* the environment check made inside the try block, so that the finally
\* clause runs after it fails
LifespanMissingEnv_inside_try ==
    /\ stage = "start"
    /\ env_missing(env.url, env.key)
    /\ lifespanResult' = Raised(ConfigurationError(MISSING_ENV_VARS))
    /\ cleanups' = cleanups + 1
    /\ stage' = "failed"
    /\ UNCHANGED <<env, createCalls, context, dispatched, callVars>>

\* lines 66-70: a variable is unset or empty
LifespanMissingEnv ==
    /\ stage = "start"
    /\ env_missing(env.url, env.key)
    /\ lifespanResult' = Raised(ConfigurationError(MISSING_ENV_VARS))
    /\ stage' = "failed"
    /\ UNCHANGED <<env, createCalls, context, cleanups, dispatched, callVars>>

\* lines 72-81: the client and the DatabaseOperations are made, the context
\* is yielded
LifespanYield ==
    /\ stage = "start"
    /\ ~env_missing(env.url, env.key)
    /\ createCalls' = Append(createCalls, [url |-> env.url, key |-> env.key])
    /\ LET supabase_client == ClientHandle(env.url, env.key)
           db_ops == DatabaseOperations(supabase_client)
       IN context' = SupabaseContext(supabase_client, db_ops)
    /\ stage' = "serving"
    /\ UNCHANGED <<env, cleanups, lifespanResult, dispatched, callVars>>

\* lines 74, 83-87: create_client raises; the except clause raises
\* ConfigurationError and the finally clause runs
LifespanCreateClientRaises ==
    /\ stage = "start"
    /\ ~env_missing(env.url, env.key)
    /\ createCalls' = Append(createCalls, [url |-> env.url, key |-> env.key])
    /\ \E e \in ClientErrors :
         lifespanResult' = Raised(ConfigurationError(
                               "Failed to initialize Supabase client: " \o e))
    /\ cleanups' = cleanups + 1
    /\ stage' = "failed"
    /\ UNCHANGED <<env, context, dispatched, callVars>>

\* a tool entry point is served: it takes db_ops from the lifespan context
Dispatch ==
    /\ stage = "serving"
    /\ Len(dispatched) < MaxDispatch
    /\ \E o \in Operations :
         dispatched' = Append(dispatched, [tool |-> o, client |-> context.db_ops.client])
    /\ UNCHANGED <<env, stage, createCalls, context, cleanups, lifespanResult, callVars>>

\* the server body ends normally: the generator resumes after the yield and
\* the finally clause runs
LifespanExit ==
    /\ stage = "serving"
    /\ lifespanResult' = Returned(None)
    /\ cleanups' = cleanups + 1
    /\ stage' = "closed"
    /\ UNCHANGED <<env, createCalls, context, dispatched, callVars>>

\* the server body raises while the context is held: the exception is thrown
\* into the generator at the yield; except Exception turns it into
\* ConfigurationError, a BaseException passes; the finally clause runs
LifespanBodyRaises ==
    /\ stage = "serving"
    /\ \E e \in BodyErrors :
         lifespanResult' =
            IF e.base
            THEN Raised([type |-> e.type, message |-> e.message, details |-> << >>])
            ELSE Raised(ConfigurationError(
                     "Failed to initialize Supabase client: " \o e.message))
    /\ cleanups' = cleanups + 1
    /\ stage' = "failed"
    /\ UNCHANGED <<env, createCalls, context, dispatched, callVars>>

NextLifespan ==
    \/ LifespanMissingEnv
    \/ LifespanYield
    \/ LifespanCreateClientRaises
    \/ Dispatch
    \/ LifespanExit
    \/ LifespanBodyRaises

SpecLifespan == InitLifespan /\ [][NextLifespan]_vars

-----------------------------------------------------------------------------
(* several calls running concurrently on one DatabaseOperations instance:   *)
(* each call has its own arguments and local variables, the steps of the    *)
(* calls interleave                                                         *)

\* the arguments of the concurrent calls
ConcurrentCalls ==
    {[op |-> "read",
      args |-> [NoArgs EXCEPT !.table_name = PyStr("users"),
                              !.filters = PyDict(<<[column |-> "id", value |-> PyInt(1)]>>),
                              !.limit = PyInt(1), !.order_by = PyStr("id")]],
     [op |-> "create",
      args |-> [NoArgs EXCEPT !.table_name = PyStr("orders"), !.records = Record1]],
     [op |-> "update",
      args |-> [NoArgs EXCEPT !.table_name = PyStr("users"),
                              !.updates = PyDict(<<[column |-> "age", value |-> PyInt(2)]>>),
                              !.filters = PyDict(<<[column |-> "age", value |-> PyInt(1)]>>)]],
     [op |-> "delete",
      args |-> [NoArgs EXCEPT !.table_name = PyStr("orders"),
                              !.filters = PyDict(<<[column |-> "id", value |-> PyInt(2)]>>)]],
     [op |-> "delete",
      args |-> [NoArgs EXCEPT !.table_name = PyStr("users"), !.filters = PyDict(<< >>)]]}

\* what the store does in the concurrent calls
ConcurrentErrors == {"Database error"}
ConcurrentResults ==
    {ExecuteReturns(None), ExecuteReturns(PyList(<<Record1>>)), ExecuteRaises("timeout")}

\* a call that has not started
IdleTask ==
    [ph |-> "idle", op |-> "read", args |-> NoArgs, pc |-> 0, execution |-> "none",
     response |-> None, raisedError |-> "", result |-> Pending]

\* one query builder kept on the instance and used by every call
builder_of_shared(t) == 1

\* the builder a call works on: the local variable query of its own frame,
\* bound to what self.client.table(...) returned to it
builder_of(t) == t

singleCallVars == <<phase, layer, op, request, args, pc, query, execution, response, raisedError,
                    dbResult, outcome, calls>>

InitConcurrent ==
    /\ Serving
    /\ phase = "idle"
    /\ layer = "database"
    /\ op = "read"
    /\ args = NoArgs
    /\ pc = 0
    /\ query = << >>
    /\ execution = "none"
    /\ response = None
    /\ raisedError = ""
    /\ dbResult = Pending
    /\ outcome = Pending
    /\ calls = 0
    /\ request = NoArgs
    /\ tasks = [t \in 1..MaxTasks |-> IdleTask]
    /\ builders = [t \in 1..MaxTasks |-> << >>]

TaskStmt(t) == Program(tasks[t].op, tasks[t].args)[tasks[t].pc]
TaskEnds(t, result) == [tasks EXCEPT ![t].ph = "done", ![t].result = result]
TaskAdvances(t) == [tasks EXCEPT ![t].pc = @ + 1]

\* a caller invokes a method while others may be running
ConcurrentCall ==
    /\ \E t \in 1..MaxTasks, c \in ConcurrentCalls :
         /\ tasks[t].ph = "idle"
         /\ tasks' = [tasks EXCEPT ![t] = [IdleTask EXCEPT !.ph = "running", !.op = c.op,
                                                            !.args = c.args, !.pc = 1]]
    /\ UNCHANGED <<builders, singleCallVars, lifespanVars>>

ConcurrentCheck ==
    /\ \E t \in 1..MaxTasks :
         /\ tasks[t].ph = "running"
         /\ TaskStmt(t).k = "check"
         /\ LET message == RunCheck(TaskStmt(t).m, tasks[t].args)
            IN tasks' = IF message # ""
                        THEN TaskEnds(t, Raised(ValidationError(message)))
                        ELSE TaskAdvances(t)
    /\ UNCHANGED <<builders, singleCallVars, lifespanVars>>

ConcurrentLog ==
    /\ \E t \in 1..MaxTasks :
         /\ tasks[t].ph = "running"
         /\ TaskStmt(t).k = "log"
         /\ tasks' =
              IF LogRaises(TaskStmt(t).m, tasks[t].args, tasks[t].response)
              THEN LET e == TypeError(LogSubject(TaskStmt(t).m, tasks[t].args,
                                                 tasks[t].response))
                   IN TaskEnds(t, Raised(IF InTry(TaskStmt(t)) THEN method_except(e) ELSE e))
              ELSE TaskAdvances(t)
    /\ UNCHANGED <<builders, singleCallVars, lifespanVars>>

ConcurrentClient ==
    /\ \E t \in 1..MaxTasks :
         /\ tasks[t].ph = "running"
         /\ TaskStmt(t).k = "client"
         /\ builders' = [builders EXCEPT ![builder_of(t)] =
                            Append(@, ClientCall(TaskStmt(t), tasks[t].args))]
         /\ tasks' = TaskAdvances(t)
    /\ UNCHANGED <<singleCallVars, lifespanVars>>

ConcurrentClientRaises ==
    /\ \E t \in 1..MaxTasks, e \in ConcurrentErrors :
         /\ tasks[t].ph = "running"
         /\ TaskStmt(t).k = "client"
         /\ builders' = [builders EXCEPT ![builder_of(t)] =
                            Append(@, ClientCall(TaskStmt(t), tasks[t].args))]
         /\ tasks' = [TaskEnds(t, Raised(method_except(ClientException(e))))
                         EXCEPT ![t].raisedError = e]
    /\ UNCHANGED <<singleCallVars, lifespanVars>>

ConcurrentExecute ==
    /\ \E t \in 1..MaxTasks, result \in ConcurrentResults :
         /\ tasks[t].ph = "running"
         /\ TaskStmt(t).k = "execute"
         /\ builders' = [builders EXCEPT ![builder_of(t)] = execute_calls(@)]
         /\ LET r == safe_execute_query(result, tasks[t].op, tasks[t].args.table_name)
                ran == [tasks EXCEPT ![t].execution = IF result.raised THEN "raised"
                                                      ELSE "returned",
                                     ![t].raisedError = result.error]
            IN tasks' = IF r.kind = "raise"
                        THEN [ran EXCEPT ![t].ph = "done",
                                         ![t].result = Raised(method_except(r.exc))]
                        ELSE [ran EXCEPT ![t].response = r.value, ![t].pc = @ + 1]
    /\ UNCHANGED <<singleCallVars, lifespanVars>>

ConcurrentReturn ==
    /\ \E t \in 1..MaxTasks :
         /\ tasks[t].ph = "running"
         /\ TaskStmt(t).k = "return"
         /\ tasks' = TaskEnds(t, Returned(ReturnValue(tasks[t].op, tasks[t].args,
                                                      tasks[t].response)))
    /\ UNCHANGED <<builders, singleCallVars, lifespanVars>>

NextConcurrent ==
    \/ ConcurrentCall
    \/ ConcurrentCheck
    \/ ConcurrentLog
    \/ ConcurrentClient
    \/ ConcurrentClientRaises
    \/ ConcurrentExecute
    \/ ConcurrentReturn

SpecConcurrent == InitConcurrent /\ [][NextConcurrent]_vars

-----------------------------------------------------------------------------
(* Properties *)

Done == phase = "done"
Mutating == op \in {"create", "update", "delete"}
RaisedType(result, type) == result.kind = "raise" /\ result.exc.type = type
ExecuteCount == Cardinality({i \in 1..Len(query) : query[i].m = "execute"})
EqCount == Cardinality({i \in 1..Len(query) : query[i].m = "eq"})

\* the store returned at least one row
HasRows(data) == data.t = "list" /\ Len(data.elems) >= 1

\* C1: whenever a call of read, create, update or delete ends in a
\* ValidationError, no method of the store client has been invoked during
\* that call.
C1_ValidationErrorBeforeAnyClientCall ==
    (Done /\ RaisedType(outcome, "ValidationError")) => query = << >>

C1_Witness ==
    /\ Done
    /\ op = "create"
    /\ args.table_name = PyStr("users")
    /\ args.records = PyList(<< >>)
    /\ RaisedType(outcome, "ValidationError")
    /\ outcome.exc.message = "Records cannot be empty"

\* C2: update and delete treat filters as mandatory: a call whose filters
\* argument is None fails with ValidationError like a call with an empty
\* mapping, and no update or delete is executed against the store without
\* at least one equality filter.
C2_FiltersMandatory ==
    (Done /\ op \in {"update", "delete"}) =>
        /\ args.filters \in {None, PyDict(<< >>)} => RaisedType(outcome, "ValidationError")
        /\ ExecuteCount > 0 => EqCount > 0

\* C3: every envelope returned by create, update or delete has status
\* "success" if and only if the data returned by execute is non-null and
\* non-empty, and status "error" otherwise.
C3_StatusIffRows ==
    (Done /\ Mutating /\ outcome.kind = "return") =>
        /\ outcome.value.status = "success" <=> HasRows(response)
        /\ outcome.value.status \in {"success", "error"}

C3_Witness ==
    /\ Done
    /\ op = "delete"
    /\ outcome.kind = "return"
    /\ response = PyList(<< >>)
    /\ outcome.value.status = "error"

\* C4: create_response(data, status, message) returns an envelope whose
\* count is the length of data when data is non-null and non-empty and 0
\* otherwise, whose status is the string value of the given enum member, and
\* whose data and message are the arguments unchanged (the status is passed
\* through, not derived from data).
C4_CreateResponseShape ==
    (Done /\ op = "create_response") =>
        /\ outcome.kind = "return"
        /\ outcome.value.count = (IF HasRows(args.data) THEN Len(args.data.elems) ELSE 0)
        /\ args.status = "SUCCESS" => outcome.value.status = "success"
        /\ args.status = "ERROR" => outcome.value.status = "error"
        /\ outcome.value.data = args.data
        /\ outcome.value.message = args.message

C4_Witness ==
    /\ Done
    /\ op = "create_response"
    /\ args.data = None
    /\ args.status = "SUCCESS"
    /\ outcome.value.status = "success"
    /\ outcome.value.count = 0

\* C5: in each of the four operations, if the store client's execute raises,
\* the call ends by raising QueryExecutionError whose operation is the
\* operation's name, whose table_name is the table argument, whose message
\* contains "Failed to execute <operation> on table '<table>'" and whose
\* details carry the original error's message; it never returns rows or an
\* envelope.
C5_ExecuteFailureSurfaces ==
    (Done /\ execution = "raised") =>
        /\ dbResult = outcome
        /\ RaisedType(outcome, "QueryExecutionError")
        /\ outcome.exc.operation = op
        /\ outcome.exc.table_name = args.table_name
        /\ Contains(outcome.exc.message,
                    "Failed to execute " \o op \o " on table '" \o args.table_name.s \o "'")
        /\ \E i \in 1..Len(outcome.exc.details) :
              /\ outcome.exc.details[i].key = "original_error"
              /\ outcome.exc.details[i].value = raisedError

C5_Witness ==
    /\ Done
    /\ op = "delete"
    /\ layer = "server"
    /\ execution = "raised"
    /\ raisedError = "timeout"
    /\ outcome.exc.message = "Failed to execute delete on table 'users': timeout"

TableNameOk == args.table_name.t = "str" /\ \E i \in 1..Len(args.table_name.s) :
                                              SubSeq(args.table_name.s, i, i) \notin Whitespace
LimitOk == args.limit = None \/ (args.limit.t = "int" /\ args.limit.n >= 1)
FiltersOk == args.filters = None \/ (args.filters.t = "dict" /\ Len(args.filters.items) >= 1)
UpdatesOk == args.updates.t = "dict" /\ Len(args.updates.items) >= 1
RecordsOk == \/ args.records.t = "dict" /\ Len(args.records.items) >= 1
             \/ args.records.t = "list" /\ Len(args.records.elems) >= 1
             \/ args.records.t = "int" /\ args.records.n # 0
ValidationPasses ==
    /\ TableNameOk
    /\ op = "read" => LimitOk /\ FiltersOk
    /\ op = "create" => RecordsOk
    /\ op = "update" => UpdatesOk /\ FiltersOk
    /\ op = "delete" => FiltersOk

\* every builder call the method made returned
ConstructionCompleted == query # << >> /\ ~RaisedType(dbResult, "Exception")

\* C7: no operation retries: in a single call execute is invoked at most
\* once, nothing is invoked after it, and it is invoked exactly once when
\* validation passes and query construction completes.
C7_ExecuteAtMostOnce ==
    /\ ExecuteCount <= 1
    /\ \A i \in 1..Len(query) : query[i].m = "execute" => i = Len(query)
    /\ (Done /\ ValidationPasses /\ ConstructionCompleted) => ExecuteCount = 1
    /\ (Done /\ execution # "none") => ExecuteCount = 1

C7_Witness ==
    /\ Done
    /\ op = "update"
    /\ execution = "raised"
    /\ ExecuteCount = 1
    /\ Len(query) = 5

\* the messages of the three mutating operations
NothingMessage ==
    CASE op = "create" -> "No records were created"
      [] op = "update" -> "No records were updated"
      [] op = "delete" -> "No records were deleted"
      [] OTHER -> ""
DoneWord ==
    CASE op = "create" -> "Created"
      [] op = "update" -> "Updated"
      [] op = "delete" -> "Deleted"
      [] OTHER -> ""

\* C8: for create, update and delete, when execute returns null or zero rows
\* the operation returns normally an envelope with count 0, status "error",
\* data equal to what the store returned and the message "No records were
\* created" / "No records were updated" / "No records were deleted".
C8_EmptyResultEnvelope ==
    (Done /\ Mutating /\ execution = "returned" /\ ~HasRows(response)) =>
        /\ outcome = Returned([data |-> response, count |-> 0, status |-> "error",
                               message |-> PyStr(NothingMessage)])
        /\ dbResult = outcome

C8_Witness ==
    /\ Done
    /\ op = "update"
    /\ execution = "returned"
    /\ response = None
    /\ outcome.kind = "return"
    /\ outcome.value.message = PyStr("No records were updated")

\* C9: for create, update and delete, when execute returns N >= 1 rows the
\* envelope has data equal to those rows, count N, status "success" and the
\* message "Created N record(s)" / "Updated N record(s)" / "Deleted N
\* record(s)", N being the number of rows the store returned.
C9_RowsEnvelope ==
    (Done /\ Mutating /\ execution = "returned" /\ HasRows(response)) =>
        /\ outcome = Returned([data |-> response, count |-> Len(response.elems),
                               status |-> "success",
                               message |-> PyStr(DoneWord \o " " \o ToString(Len(response.elems))
                                                 \o " record(s)")])
        /\ dbResult = outcome

C9_Witness ==
    /\ Done
    /\ op = "create"
    /\ args.records = Record1
    /\ response = PyList(<<Record1, Record2>>)
    /\ outcome.kind = "return"
    /\ outcome.value.count = 2
    /\ outcome.value.message = PyStr("Created 2 record(s)")

ReturnsPromisedShape ==
    /\ outcome.kind = "return"
    /\ IF op = "read"
       THEN outcome.value.t = "list"
       ELSE DOMAIN outcome.value = {"data", "count", "status", "message"}

\* C11: every call to one of the four operation entry points ends in exactly
\* one of three outcomes: a returned value (row sequence for read, envelope
\* for create, update, delete), a raised ValidationError, or a raised
\* QueryExecutionError; no other exception type escapes to the caller.
C11_OnlyThreeOutcomes ==
    Done =>
        \/ ReturnsPromisedShape
        \/ RaisedType(outcome, "ValidationError")
        \/ RaisedType(outcome, "QueryExecutionError")

\* the equality constraints issued so far, in the order they were issued
EqCalls == SelectSeq(query, LAMBDA c : c.m = "eq")

\* one equality constraint per entry of a mapping, in its iteration order
EntriesAsEq(filters) ==
    IF filters.t = "dict"
    THEN [i \in 1..Len(filters.items) |->
            [m |-> "eq", a1 |-> PyStr(filters.items[i].column), a2 |-> filters.items[i].value]]
    ELSE << >>

\* C12: for read, update and delete with a filter mapping of k entries,
\* exactly k equality constraints are issued, one per entry with that
\* entry's (column, value), chained in the mapping's iteration order, and all
\* of them before execute; with filters None, no equality constraint is
\* issued.
C12_OneEqPerEntryInOrder ==
    (phase # "idle" /\ op \in {"read", "update", "delete"}) =>
        /\ Len(EqCalls) <= Len(EntriesAsEq(args.filters))
        /\ EqCalls = SubSeq(EntriesAsEq(args.filters), 1, Len(EqCalls))
        /\ ExecuteCount = 1 => EqCalls = EntriesAsEq(args.filters)
        /\ \A i, j \in 1..Len(query) :
              (query[i].m = "eq" /\ query[j].m = "execute") => i < j
        /\ args.filters = None => EqCalls = << >>

C12_Witness ==
    /\ Done
    /\ op = "read"
    /\ args.filters = PyDict(<<[column |-> "age", value |-> PyInt(2)],
                               [column |-> "id", value |-> PyInt(1)]>>)
    /\ execution = "returned"
    /\ EqCalls = <<[m |-> "eq", a1 |-> PyStr("age"), a2 |-> PyInt(2)],
                   [m |-> "eq", a1 |-> PyStr("id"), a2 |-> PyInt(1)]>>

\* the entries of a mapping, without their order
Entries(items) == {items[i] : i \in 1..Len(items)}

\* the rows of the table that satisfy every entry of a set of entries
Satisfying(entries) == {r \in StoreTable : \A e \in entries : r[e.column] = e.value}

\* C13: for any two filter mappings with the same (column, value) entries in
\* different iteration order, read, update and delete target the same rows:
\* exactly those satisfying every equality constraint, whatever the order in
\* which the constraints were applied.
C13_TargetIndependentOfOrder ==
    (Done /\ op \in {"read", "update", "delete"} /\ ExecuteCount = 1
          /\ args.filters.t = "dict") =>
        \A g \in Mappings(MaxFilters) :
            Entries(g) = Entries(args.filters.items) =>
                Targeted(StoreTable, query) = Satisfying(Entries(g))

C13_Witness ==
    /\ Done
    /\ op = "delete"
    /\ ExecuteCount = 1
    /\ args.filters = PyDict(<<[column |-> "age", value |-> PyInt(2)],
                               [column |-> "id", value |-> PyInt(1)]>>)
    /\ Targeted(StoreTable, query) = {[id |-> PyInt(1), age |-> PyInt(2)]}

\* the client calls of a read, in the claimed order, with the order step
\* present when ordered holds
ReadQuery(ordered) ==
    <<[m |-> "table", a1 |-> args.table_name, a2 |-> None],
      [m |-> "select", a1 |-> args.columns, a2 |-> None]>>
    \o EntriesAsEq(args.filters)
    \o (IF ordered THEN <<[m |-> "order", a1 |-> args.order_by, a2 |-> args.ascending]>>
        ELSE << >>)
    \o (IF args.limit # None THEN <<[m |-> "limit", a1 |-> args.limit, a2 |-> None]>>
        ELSE << >>)
    \o <<[m |-> "execute", a1 |-> None, a2 |-> None]>>

\* C14 as stated: read_table_rows builds its query in the fixed sequence
\* table -> select -> equality filters -> order -> limit -> execute, the
\* order step being issued if and only if order_by is given, the limit step
\* if and only if limit is given, and columns passed to select unchanged.
C14_ReadSequenceOrderIffGiven ==
    (Done /\ op = "read" /\ ExecuteCount = 1) => query = ReadQuery(args.order_by # None)

\* C14 amended: the same sequence, the order step being issued if and only
\* if order_by is given and is not the empty string.
C14_ReadSequence ==
    (phase # "idle" /\ op = "read") =>
        LET expected == ReadQuery(args.order_by # None /\ args.order_by # PyStr(""))
        IN /\ Len(query) <= Len(expected)
           /\ query = SubSeq(expected, 1, Len(query))
           /\ ExecuteCount = 1 => query = expected

C14_Witness ==
    /\ Done
    /\ op = "read"
    /\ args.columns = PyStr("id,name")
    /\ args.order_by = PyStr("id")
    /\ args.ascending = PyBool(FALSE)
    /\ args.limit = PyInt(2)
    /\ IsInstance(args.filters, "dict")
    /\ Len(args.filters.items) = 1
    /\ Len(query) = 6
    /\ query[4] = [m |-> "order", a1 |-> PyStr("id"), a2 |-> PyBool(FALSE)]
    /\ query[5] = [m |-> "limit", a1 |-> PyInt(2), a2 |-> None]

\* C16: validate_table_name returns silently for every string that is
\* non-empty after trimming whitespace, and raises ValidationError "Table
\* name cannot be empty" for the empty string, a whitespace-only string,
\* null and any non-string value.
C16_ValidateTableName ==
    (Done /\ op = "validate_table_name") =>
        LET v == args.value
            named == v.t = "str" /\ \E i \in 1..Len(v.s) : SubSeq(v.s, i, i) \notin Whitespace
        IN IF named
           THEN outcome = Returned(None)
           ELSE outcome = Raised(ValidationError("Table name cannot be empty"))

C16_Witness ==
    /\ Done
    /\ op = "validate_table_name"
    /\ args.value = PyStr("\t\n")
    /\ RaisedType(outcome, "ValidationError")

\* C17: validate_limit returns silently for None and for every integer
\* n > 0, and raises ValidationError "Limit must be a positive integer" for
\* every integer n <= 0 and for every value that is not an integer.  (In
\* Python a bool is an integer: True is 1 and False is 0.)
C17_ValidateLimit ==
    (Done /\ op = "validate_limit") =>
        LET v == args.value
            positive == \/ v.t = "int" /\ v.n >= 1
                        \/ v.t = "bool" /\ v.b
        IN IF v = None \/ positive
           THEN outcome = Returned(None)
           ELSE outcome = Raised(ValidationError("Limit must be a positive integer"))

C17_Witness ==
    /\ Done
    /\ op = "validate_limit"
    /\ args.value = PyInt(0)
    /\ RaisedType(outcome, "ValidationError")

\* a mapping with at least one entry
NonEmptyMapping(v) == v.t = "dict" /\ Len(v.items) >= 1

\* C18: validate_filters and validate_updates both return silently for
\* every non-empty mapping and both raise ValidationError for the empty
\* mapping and for any non-mapping value; they differ only on None, which
\* validate_filters accepts and validate_updates rejects.
C18_ValidateFiltersAndUpdates ==
    /\ (Done /\ op = "validate_filters") =>
          IF args.value = None \/ NonEmptyMapping(args.value)
          THEN outcome = Returned(None)
          ELSE RaisedType(outcome, "ValidationError")
    /\ (Done /\ op = "validate_updates") =>
          IF NonEmptyMapping(args.value)
          THEN outcome = Returned(None)
          ELSE RaisedType(outcome, "ValidationError")

C18_Witness ==
    /\ Done
    /\ op = "validate_updates"
    /\ args.value = None
    /\ outcome = Raised(ValidationError("Updates must be a dictionary"))

\* the records argument is empty or null
NoRecords == args.records \in {None, PyDict(<< >>), PyList(<< >>)}

\* C19 as stated: create_table_records rejects empty or null records with
\* ValidationError "Records cannot be empty" before the table-name validator
\* runs, so the records error is raised whatever the table name is.
C19_RecordsRejectedFirst ==
    (Done /\ op = "create" /\ NoRecords) =>
        outcome = Raised(ValidationError("Records cannot be empty"))

\* C19 amended: create_table_records rejects empty or null records with
\* ValidationError "Records cannot be empty" after the table-name validator
\* and before any client call: with a valid table name the records error is
\* raised, with an invalid one the error is "Table name cannot be empty".
C19_RecordsRejectedAfterTableName ==
    (Done /\ op = "create" /\ NoRecords) =>
        /\ query = << >>
        /\ IF TableNameOk
           THEN outcome = Raised(ValidationError("Records cannot be empty"))
           ELSE outcome = Raised(ValidationError("Table name cannot be empty"))

C19_Witness ==
    /\ Done
    /\ op = "create"
    /\ args.table_name = PyStr("")
    /\ args.records = PyList(<< >>)
    /\ outcome = Raised(ValidationError("Table name cannot be empty"))

\* a variable of the environment is unset or empty
Unset(v) == v = None \/ v = PyStr("")

\* C20: the lifespan initialiser raises ConfigurationError with a message
\* containing "Missing environment variables" whenever SUPABASE_URL or
\* SUPABASE_SERVICE_KEY is unset or empty, and in that case the store client
\* is never created and no context is yielded.
C20_MissingEnvironment ==
    (Unset(env.url) \/ Unset(env.key)) =>
        /\ createCalls = << >>
        /\ context = None
        /\ dispatched = << >>
        /\ stage \in {"start", "failed"}
        /\ stage = "failed" =>
              /\ RaisedType(lifespanResult, "ConfigurationError")
              /\ Contains(lifespanResult.exc.message, "Missing environment variables")

C20_Witness ==
    /\ stage = "failed"
    /\ env.url = PyStr("https://example.supabase.co")
    /\ env.key = PyStr("")
    /\ RaisedType(lifespanResult, "ConfigurationError")
    /\ createCalls = << >>

\* C21: with both environment variables set, the lifespan creates the store
\* client exactly once with (url, key), and yields exactly one context whose
\* client is that client and whose db_ops holds the same client handle; the
\* handle is obtained once and reused by every operation dispatched during
\* the lifespan.
C21_ClientCreatedOnceAndReused ==
    (~Unset(env.url) /\ ~Unset(env.key)) =>
        /\ Len(createCalls) <= 1
        /\ stage # "start" => createCalls = <<[url |-> env.url, key |-> env.key]>>
        /\ stage \in {"serving", "closed"} => context # None
        /\ context # None =>
              /\ context.client = ClientHandle(env.url, env.key)
              /\ context.db_ops.client = context.client
        /\ \A i \in 1..Len(dispatched) :
              context # None /\ dispatched[i].client = context.client

C21_Witness ==
    /\ stage = "closed"
    /\ env = [url |-> PyStr("http://localhost"), key |-> PyStr("other-key")]
    /\ Len(createCalls) = 1
    /\ Len(dispatched) = 2
    /\ dispatched[1].tool = "read"
    /\ dispatched[2].tool = "delete"
    /\ dispatched[1].client = ClientHandle(env.url, env.key)
    /\ dispatched[2].client = dispatched[1].client

\* the messages of the validators of a method that reject the arguments, in
\* the order the method runs them
FailedChecks(o, a) ==
    SelectSeq(Program(o, a), LAMBDA s : s.k = "check" /\ RunCheck(s.m, a) # "")

\* the client calls a method makes on the arguments when none of them raises
FullQuery(o, a) ==
    LET stmts == SelectSeq(Program(o, a), LAMBDA s : s.k = "client")
    IN [i \in 1..Len(stmts) |-> ClientCall(stmts[i], a)] \o <<ExecuteCall>>

\* how a method ends, from the arguments of the call and what the store did
\* in that call: ex is what execute did, data what it returned, err the
\* message of the exception the client raised
ResultOf(o, a, ex, data, err) ==
    IF FailedChecks(o, a) # << >>
    THEN Raised(ValidationError(RunCheck(Head(FailedChecks(o, a)).m, a)))
    ELSE IF o = "create" /\ LogRaises("record_count", a, data)
    THEN Raised(TypeError(a.records))
    ELSE IF ex = "none"
    THEN Raised(ClientException(err))
    ELSE IF ex = "raised"
    THEN safe_execute_query(ExecuteRaises(err), o, a.table_name)
    ELSE IF o = "read" /\ LogRaises("rows_read", a, data)
    THEN Raised(TypeError(data))
    ELSE Returned(ReturnValue(o, a, data))

\* C22: after any sequence of read, create, update and delete calls
\* (successful or failing) on one DatabaseOperations instance, the instance's
\* client handle is the one given at construction and the instance holds no
\* other state: the outcome of each call is a function of that call's
\* parameters and the store's responses only, never of earlier calls on the
\* instance.
C22_StatelessInstance ==
    /\ context.db_ops = DatabaseOperations(ClientHandle(TestEnv.url, TestEnv.key))
    /\ phase = "idle" => query = << >> /\ dbResult = Pending
    /\ phase # "idle" =>
          /\ Len(query) <= Len(FullQuery(op, args))
          /\ query = SubSeq(FullQuery(op, args), 1, Len(query))
    /\ Done => dbResult = ResultOf(op, args, execution, response, raisedError)

C22_Witness ==
    /\ Done
    /\ calls = 2
    /\ op = "update"
    /\ execution = "returned"
    /\ response = PyList(<<Record1>>)
    /\ Len(query) = 4
    /\ dbResult.kind = "return"
    /\ dbResult.value.message = PyStr("Updated 1 record(s)")

\* C23: when several operation calls run concurrently on the same
\* DatabaseOperations instance, with their validate/build/execute/wrap steps
\* interleaved arbitrarily, each call builds its own query (no equality
\* filter, ordering, limit or verb of one call appears in another call's
\* query) and each call's result or error is the one it would produce when
\* run alone against the same store responses.
C23_ConcurrentCallsIndependent ==
    \A t \in DOMAIN tasks :
        LET c == tasks[t]
        IN /\ c.ph = "idle" => builders[t] = << >>
           /\ c.ph # "idle" =>
                 /\ Len(builders[t]) <= Len(FullQuery(c.op, c.args))
                 /\ builders[t] = SubSeq(FullQuery(c.op, c.args), 1, Len(builders[t]))
                 /\ c.execution # "none" => builders[t] = FullQuery(c.op, c.args)
           /\ c.ph = "done" =>
                 c.result = ResultOf(c.op, c.args, c.execution, c.response, c.raisedError)

C23_Witness ==
    /\ DOMAIN tasks = 1..MaxTasks
    /\ tasks[1].ph = "running"
    /\ tasks[1].op = "read"
    /\ Len(builders[1]) = 3
    /\ tasks[2].ph = "running"
    /\ tasks[2].op = "delete"
    /\ Len(builders[2]) = 2
    /\ builders[2][2].m = "delete"
    /\ builders[1][3].m = "eq"

\* the client calls of a mutating operation, in the claimed order
MutatingQuery ==
    LET table == [m |-> "table", a1 |-> args.table_name, a2 |-> None]
        execute == [m |-> "execute", a1 |-> None, a2 |-> None]
    IN CASE op = "create" ->
              <<table, [m |-> "insert", a1 |-> args.records, a2 |-> None], execute>>
         [] op = "update" ->
              <<table, [m |-> "update", a1 |-> args.updates, a2 |-> None]>>
              \o EntriesAsEq(args.filters) \o <<execute>>
         [] op = "delete" ->
              <<table, [m |-> "delete", a1 |-> None, a2 |-> None]>>
              \o EntriesAsEq(args.filters) \o <<execute>>

\* C24: the mutating operations issue a fixed client call sequence: create
\* issues table(name) -> a single insert with the records argument unchanged
\* (single row or whole list, never one insert per row) -> execute; update
\* issues table(name) -> update(updates) -> equality filters -> execute;
\* delete issues table(name) -> delete() -> equality filters -> execute; the
\* verb call always precedes every equality filter and execute is always
\* last.
C24_MutatingSequence ==
    (phase # "idle" /\ Mutating) =>
        /\ Len(query) <= Len(MutatingQuery)
        /\ query = SubSeq(MutatingQuery, 1, Len(query))
        /\ ExecuteCount = 1 => query = MutatingQuery
        /\ \A i, j \in 1..Len(query) :
              (query[i].m \in {"insert", "update", "delete"} /\ query[j].m = "eq") => i < j
        /\ \A i \in 1..Len(query) : query[i].m = "execute" => i = Len(query)

C24_Witness ==
    /\ Done
    /\ op = "create"
    /\ args.records = PyList(<<Record1, Record2>>)
    /\ query = <<[m |-> "table", a1 |-> PyStr("users"), a2 |-> None],
                 [m |-> "insert", a1 |-> PyList(<<Record1, Record2>>), a2 |-> None],
                 [m |-> "execute", a1 |-> None, a2 |-> None]>>

\* the value the method receives for a parameter of read: the one the
\* caller passed or, when the caller left it out, the stated default
Forwarded(passed, default) == IF passed = Omitted THEN default ELSE passed

\* C25: each tool entry point in the server forwards its arguments unchanged
\* to the matching DatabaseOperations method exactly once (read with defaults
\* columns="*", filters=None, limit=None, order_by=None, ascending=True when
\* omitted) and returns that method's result unchanged, including
\* "error"-status envelopes, which are returned and not raised.
C25_ToolForwards ==
    (phase # "idle" /\ layer = "server") =>
        /\ args.table_name = request.table_name
        /\ op = "read" =>
              /\ args.columns = Forwarded(request.columns, PyStr("*"))
              /\ args.filters = Forwarded(request.filters, None)
              /\ args.limit = Forwarded(request.limit, None)
              /\ args.order_by = Forwarded(request.order_by, None)
              /\ args.ascending = Forwarded(request.ascending, PyBool(TRUE))
        /\ op = "create" => args.records = request.records
        /\ op = "update" => args.updates = request.updates /\ args.filters = request.filters
        /\ op = "delete" => args.filters = request.filters
        /\ Len(query) <= Len(FullQuery(op, args))
        /\ query = SubSeq(FullQuery(op, args), 1, Len(query))
        /\ (Done /\ dbResult.kind = "return") => outcome = dbResult

C25_Witness ==
    /\ Done
    /\ layer = "server"
    /\ op = "delete"
    /\ response = PyList(<< >>)
    /\ outcome.kind = "return"
    /\ outcome.value.status = "error"
    /\ outcome.value.message = PyStr("No records were deleted")

\* C26: in each tool entry point, a ValidationError or QueryExecutionError
\* raised by the DatabaseOperations method propagates to the caller as the
\* same exception (same type, message, table_name and operation), while any
\* other exception is replaced by a QueryExecutionError whose message is
\* "Unexpected error: <original message>", whose table_name is the tool's
\* table argument and whose operation is the tool's verb
\* (read/create/update/delete).
C26_ToolExceptions ==
    (Done /\ layer = "server" /\ dbResult.kind = "raise") =>
        IF dbResult.exc.type \in {"ValidationError", "QueryExecutionError"}
        THEN outcome = dbResult
        ELSE /\ RaisedType(outcome, "QueryExecutionError")
             /\ outcome.exc.message = "Unexpected error: " \o dbResult.exc.message
             /\ outcome.exc.table_name = request.table_name
             /\ outcome.exc.operation = op

C26_Witness ==
    /\ Done
    /\ layer = "server"
    /\ op = "read"
    /\ RaisedType(dbResult, "TypeError")
    /\ RaisedType(outcome, "QueryExecutionError")
    /\ outcome.exc.message = "Unexpected error: object of type 'NoneType' has no len()"
    /\ outcome.exc.table_name = PyStr("users")
    /\ outcome.exc.operation = "read"

\* the error each check owes to the arguments ("" when it has none)
TableNameMessage == IF TableNameOk THEN "" ELSE "Table name cannot be empty"
LimitMessage == IF LimitOk THEN "" ELSE "Limit must be a positive integer"
FiltersMessage ==
    IF FiltersOk THEN ""
    ELSE IF args.filters.t # "dict" THEN "Filters must be a dictionary"
    ELSE "Filters dictionary cannot be empty"
UpdatesMessage ==
    IF UpdatesOk THEN ""
    ELSE IF args.updates.t # "dict" THEN "Updates must be a dictionary"
    ELSE "Updates dictionary cannot be empty"

\* the checks of read, update and delete in the claimed order
ClaimedChecks ==
    CASE op = "read" -> <<TableNameMessage, LimitMessage, FiltersMessage>>
      [] op = "update" -> <<TableNameMessage, UpdatesMessage, FiltersMessage>>
      [] op = "delete" -> <<TableNameMessage, FiltersMessage>>

\* C27: validators run in a fixed order and the first failing one determines
\* the error: read checks table name, then limit, then filters; update
\* checks table name, then updates, then filters; delete checks table name,
\* then filters.  When several parameters are invalid, the ValidationError
\* raised is that of the earliest check in this order and later checks do
\* not run.
C27_FirstFailingValidator ==
    (Done /\ op \in {"read", "update", "delete"}) =>
        LET failing == {i \in DOMAIN ClaimedChecks : ClaimedChecks[i] # ""}
        IN IF failing # {}
           THEN LET first == CHOOSE i \in failing : \A j \in failing : i <= j
                IN /\ dbResult = Raised(ValidationError(ClaimedChecks[first]))
                   /\ outcome = dbResult
                   /\ pc = first
                   /\ query = << >>
           ELSE /\ ~RaisedType(dbResult, "ValidationError")
                /\ pc > Len(ClaimedChecks)

C27_Witness ==
    /\ Done
    /\ op = "read"
    /\ args.table_name = PyStr("users")
    /\ args.limit = PyInt(0)
    /\ args.filters = PyStr("id=1")
    /\ pc = 2
    /\ outcome = Raised(ValidationError("Limit must be a positive integer"))

\* a builder method of the store client raised in this call
BuilderRaised == execution = "none" /\ raisedError # ""

\* C28: an exception raised by the store client while the query is being
\* built (table, select, insert, update, delete, eq, order or limit, i.e.
\* before execute) leaves DatabaseOperations' methods as the original
\* exception, not wrapped in QueryExecutionError, and execute is never
\* invoked in that call.
C28_BuilderExceptionUnwrapped ==
    (Done /\ BuilderRaised) =>
        /\ dbResult = Raised(ClientException(raisedError))
        /\ layer = "database" => outcome = dbResult
        /\ ExecuteCount = 0
        /\ query # << >>
        /\ query[Len(query)].m \in {"table", "select", "insert", "update", "delete", "eq",
                                    "order", "limit"}

C28_Witness ==
    /\ Done
    /\ layer = "database"
    /\ op = "read"
    /\ Len(query) = 3
    /\ query[3].m = "eq"
    /\ raisedError = "Database error"
    /\ outcome = Raised(ClientException("Database error"))
    /\ ExecuteCount = 0

\* execute completed without raising and the store's result has data = null
NullData == execution = "returned" /\ response = None

\* C29: read_table_rows never returns null: when execute completes without
\* raising but the store's result has data = null,
\* DatabaseOperations.read_table_rows ends with an exception (not a returned
\* value and not an "error" envelope), whereas create, update and delete with
\* the same store result return an "error"-status envelope with data null
\* and count 0.
C29_ReadNeverReturnsNull ==
    /\ (Done /\ op = "read" /\ dbResult.kind = "return") => dbResult.value # None
    /\ (Done /\ op = "read" /\ NullData) =>
          /\ dbResult.kind = "raise"
          /\ outcome.kind = "raise"
    /\ (Done /\ Mutating /\ NullData) =>
          /\ dbResult.kind = "return"
          /\ dbResult.value.status = "error"
          /\ dbResult.value.data = None
          /\ dbResult.value.count = 0
          /\ outcome = dbResult

C29_Witness ==
    /\ Done
    /\ layer = "database"
    /\ op = "read"
    /\ NullData
    /\ Len(query) = 3
    /\ outcome = Raised(TypeError(None))

\* s begins with p
StartsWith(s, p) == Len(s) >= Len(p) /\ SubSeq(s, 1, Len(p)) = p

\* the environment check of the lifespan has passed
EnvironmentOk == ~Unset(env.url) /\ ~Unset(env.key)

\* the lifespan ended with ConfigurationError "Failed to initialize Supabase
\* client: ..."
FailedToInitialize ==
    /\ RaisedType(lifespanResult, "ConfigurationError")
    /\ StartsWith(lifespanResult.exc.message, "Failed to initialize Supabase client: ")

\* the cleanup step ran exactly once if the lifespan was left after the
\* environment check passed, and not at all otherwise
CleanupOncePerExit ==
    /\ (EnvironmentOk /\ stage \in {"closed", "failed"}) => cleanups = 1
    /\ (EnvironmentOk /\ stage \in {"start", "serving"}) => cleanups = 0
    /\ ~EnvironmentOk => cleanups = 0
    /\ stage = "closed" => lifespanResult = Returned(None)

\* C30 as stated: once the environment check has passed, the cleanup step
\* runs exactly once on every exit path (normal exit, client-creation
\* failure, or an exception raised by the server body while the context is
\* held), and every exception on those paths, whatever its original type,
\* reaches the caller as ConfigurationError "Failed to initialize Supabase
\* client: ..."; when the environment check fails, the cleanup step does not
\* run.
C30_EveryExceptionBecomesConfigurationError ==
    /\ CleanupOncePerExit
    /\ (EnvironmentOk /\ stage = "failed") => FailedToInitialize

\* C30 amended: the same, except that only exceptions deriving from
\* Exception reach the caller as ConfigurationError "Failed to initialize
\* Supabase client: ..."; an exception of the server body that derives from
\* BaseException only (a cancellation, a keyboard interrupt) reaches the
\* caller unchanged, after the cleanup step has run once.
C30_LifespanOrdering ==
    /\ CleanupOncePerExit
    /\ (EnvironmentOk /\ stage = "failed") =>
          \/ FailedToInitialize
          \/ /\ context # None
             /\ \E e \in BodyErrors :
                  /\ e.base
                  /\ lifespanResult =
                        Raised([type |-> e.type, message |-> e.message, details |-> << >>])

C30_Witness ==
    /\ stage = "failed"
    /\ EnvironmentOk
    /\ context # None
    /\ RaisedType(lifespanResult, "CancelledError")
    /\ cleanups = 1
    /\ Len(dispatched) = 1

====
